---- MODULE Spec2Model ----
(***************************************************************************)
(* Network provisioning of the pyDirect device scripts.                    *)
(*                                                                         *)
(*   device-scripts/improv_serial.py   Improv serial engine and listener   *)
(*   device-scripts/main.py            minimal orchestrator (file store)   *)
(*   boards/ESP32_S3_N8R2/.../main.py  board orchestrator (NVS + portal)   *)
(*   boards/ESP32_S3_N8R2/.../lib/wifi_manager.py   WiFiManager (NVS)      *)
(*   boards/SCRIPTO_P4/.../lib/wifi_onboarding.py   CaptivePortal          *)
(*                                                                         *)
(* Text is a sequence of byte values.  The absent value (Python None, a    *)
(* missing file, a missing NVS key) is the sequence <<-1>>, which no text  *)
(* equals because bytes are never negative.                                *)
(***************************************************************************)
EXTENDS Integers, Sequences, FiniteSets, TLC

\* ------------------------------------------------------------------ bounds
MaxPayloadLen == 3
MaxNetworks == 1

\* ------------------------------------------------- improv_serial constants
TYPE_CURRENT_STATE == 1
TYPE_ERROR_STATE == 2
TYPE_RPC_COMMAND == 3
TYPE_RPC_RESULT == 4

RPC_SEND_WIFI_SETTINGS == 1
RPC_REQUEST_CURRENT_STATE == 2
RPC_REQUEST_DEVICE_INFO == 3
RPC_REQUEST_SCAN_NETWORKS == 4

STATE_AUTHORIZATION_REQUIRED == 1
STATE_AUTHORIZED == 2
STATE_PROVISIONING == 3
STATE_PROVISIONED == 4

ERROR_NONE == 0
ERROR_INVALID_RPC == 1
ERROR_UNKNOWN_COMMAND == 2
ERROR_UNABLE_TO_CONNECT == 3

\* for _ in range(20) in improv_serial.connect_wifi
ImprovConnectPolls == 20
\* timeout = 30 in main.connect_wifi (one second per iteration)
MainConnectTimeout == 30

\* ------------------------------------------------------------------- text
None == <<-1>>
NL == 10
\* The byte values inputs are drawn from: 0, 1, 2 double as length prefixes,
\* 32 is " " (whitespace), 97 is "a".
Bytes == {0, 1, 2, 32, 97}
Whitespace == {9, 10, 11, 12, 13, 32}

SeqsUpTo(S, n) == UNION {[1..k -> S] : k \in 0..n}

Payloads == SeqsUpTo(Bytes, MaxPayloadLen)
CommandIds == {RPC_SEND_WIFI_SETTINGS, RPC_REQUEST_CURRENT_STATE,
               RPC_REQUEST_DEVICE_INFO, RPC_REQUEST_SCAN_NETWORKS, 0, 5, 255}

\* "10.0.0.5"
IPs == {<<49, 48, 46, 48, 46, 48, 46, 53>>}

Truthy(s) == s # None /\ s # <<>>

\* str.strip(): leading and trailing whitespace removed
RECURSIVE LStrip(_)
LStrip(s) == IF s # <<>> /\ Head(s) \in Whitespace THEN LStrip(Tail(s)) ELSE s
RECURSIVE RStrip(_)
RStrip(s) ==
    IF s # <<>> /\ s[Len(s)] \in Whitespace
    THEN RStrip(SubSeq(s, 1, Len(s) - 1)) ELSE s
strip(s) == RStrip(LStrip(s))

\* f.readlines(): the lines of the content, each with its "\n" terminator
RECURSIVE ReadLinesFrom(_, _)
ReadLinesFrom(content, cur) ==
    IF content = <<>> THEN (IF cur = <<>> THEN <<>> ELSE <<cur>>)
    ELSE IF Head(content) = NL
         THEN <<Append(cur, NL)>> \o ReadLinesFrom(Tail(content), <<>>)
         ELSE ReadLinesFrom(Tail(content), Append(cur, Head(content)))
readlines(content) == ReadLinesFrom(content, <<>>)

\* f"{ssid}\n{password}\n"
FileText(ssid, password) == ssid \o <<NL>> \o password \o <<NL>>

\* f"http://{ip}/"
RedirectUrl(ip) == <<104, 116, 116, 112, 58, 47, 47>> \o ip \o <<47>>

\* ------------------------------------------------------ improv_serial.py
\* UTF-8: how many continuation bytes the lead byte c announces, -1 when c
\* cannot lead a character
Utf8Need(c) ==
    CASE c < 128 -> 0
      [] c \in 194..223 -> 1
      [] c \in 224..239 -> 2
      [] c \in 240..244 -> 3
      [] OTHER -> -1
Utf8LeadBits(c) ==
    CASE c < 128 -> c
      [] c \in 194..223 -> c - 192
      [] c \in 224..239 -> c - 224
      [] OTHER -> c - 240
RECURSIVE CodePoint(_, _)
CodePoint(bits, conts) ==
    IF conts = <<>> THEN bits
    ELSE CodePoint(bits * 64 + (Head(conts) - 128), Tail(conts))

\* bytes.decode('utf-8'): the characters as code points, or None when the
\* bytes are not UTF-8 and decode raises UnicodeError.  DecodeFrom goes
\* through the bytes in order; decode cuts a long string in two at the start
\* of a character and decodes the halves.
RECURSIVE DecodeFrom(_, _)
DecodeFrom(b, text) ==
    IF b = <<>> THEN text
    ELSE LET need == Utf8Need(Head(b))
         IN  IF \/ need < 0
                \/ Len(b) < 1 + need
                \/ \E i \in 1..need : b[1 + i] \notin 128..191
             THEN None
             ELSE DecodeFrom(SubSeq(b, 2 + need, Len(b)),
                             Append(text, CodePoint(Utf8LeadBits(Head(b)),
                                                    SubSeq(b, 2, 1 + need))))
RECURSIVE DecodeRange(_, _, _)
DecodeRange(b, lo, hi) ==
    IF hi - lo < 8 THEN DecodeFrom(SubSeq(b, lo, hi), <<>>)
    ELSE LET starts == {j \in ((lo + hi) \div 2)..hi : b[j] \notin 128..191}
         IN  IF starts = {} THEN None
             ELSE LET m == CHOOSE j \in starts : \A k \in starts : j <= k
                      left == DecodeRange(b, lo, m - 1)
                      right == DecodeRange(b, m, hi)
                  IN  IF left = None \/ right = None THEN None ELSE left \o right
decode(b) == DecodeRange(b, 1, Len(b))

\* str.encode('utf-8')
EncodeChar(c) ==
    CASE c < 128 -> <<c>>
      [] c \in 128..2047 -> <<192 + (c \div 64), 128 + (c % 64)>>
      [] c \in 2048..65535 ->
           <<224 + (c \div 4096), 128 + ((c \div 64) % 64), 128 + (c % 64)>>
      [] OTHER -> <<240 + (c \div 262144), 128 + ((c \div 4096) % 64),
                    128 + ((c \div 64) % 64), 128 + (c % 64)>>
RECURSIVE EncodeRange(_, _, _)
EncodeRange(text, lo, hi) ==
    IF lo > hi THEN <<>>
    ELSE IF lo = hi THEN EncodeChar(text[lo])
    ELSE LET mid == (lo + hi) \div 2
         IN  EncodeRange(text, lo, mid) \o EncodeRange(text, mid + 1, hi)
encode(text) == EncodeRange(text, 1, Len(text))

\* send_rpc_result, lines 85-88: the data of the RPC_RESULT packet
RECURSIVE EncodeStrings(_)
EncodeStrings(strings) ==
    IF strings = <<>> THEN <<>>
    ELSE <<Len(encode(Head(strings)))>> \o encode(Head(strings))
             \o EncodeStrings(Tail(strings))

\* parse_strings: the strings of the records read, with None in the place
\* of the record at which decode raises
RECURSIVE ParseFrom(_, _)
ParseFrom(data, offset) ==
    IF offset >= Len(data) THEN <<>>
    ELSE LET length == data[offset + 1]
             start == offset + 1
         IN IF start + length > Len(data) THEN <<>>
            ELSE <<decode(SubSeq(data, start + 1, start + length))>>
                 \o ParseFrom(data, start + length)
parse_strings(data) == ParseFrom(data, 0)
\* line 103 raised: the UnicodeError leaves parse_strings
UnicodeError(strings) == \E i \in 1..Len(strings) : strings[i] = None

Packet(t, c, s) == [type |-> t, code |-> c, strings |-> s]
StatePacket(state) == Packet(TYPE_CURRENT_STATE, state, <<>>)
ErrorPacket(code) == Packet(TYPE_ERROR_STATE, code, <<>>)
ResultPacket(strings) == Packet(TYPE_RPC_RESULT, 0, strings)

\* "pyDirect", "1.27.0", "ESP32-S3", "pyDirect-XXXX", abbreviated to one byte each
get_device_info == << <<112>>, <<49>>, <<69>>, <<112, 45>> >>


\* ------------------------------------------------------- packet framing
\* b'IMPROV'
Magic == <<73, 77, 80, 82, 79, 86>>
\* version = bytes([0x01])
VERSION == 1

\* sum(data), added up by halves
RECURSIVE SumRange(_, _, _)
SumRange(s, lo, hi) ==
    IF lo > hi THEN 0
    ELSE IF lo = hi THEN s[lo]
    ELSE LET mid == (lo + hi) \div 2
         IN  SumRange(s, lo, mid) + SumRange(s, mid + 1, hi)
SumSeq(s) == SumRange(s, 1, Len(s))

\* a checksum that folds modulo 255
calculate_checksum_mod255(bytes) == SumSeq(bytes) % 255
\* a checksum masked with 0x7F
calculate_checksum_low7(bytes) == SumSeq(bytes) % 128

\* calculate_checksum: sum(data) & 0xFF
calculate_checksum(bytes) == SumSeq(bytes) % 256

\* a sender that sums the magic header into the checksum as well
send_packet_sum_all(ptype, payload) ==
    LET checksum_data == <<VERSION, ptype, Len(payload)>> \o payload
    IN  Magic \o checksum_data \o <<calculate_checksum(Magic \o checksum_data)>>

\* send_packet: the bytes written to stdout
send_packet(ptype, payload) ==
    LET checksum_data == <<VERSION, ptype, Len(payload)>> \o payload
    IN  Magic \o checksum_data \o <<calculate_checksum(checksum_data)>>

\* stream.read(n): the first n bytes (fewer when the stream holds fewer), and
\* what is left after them
Take(s, n) == SubSeq(s, 1, IF n < Len(s) THEN n ELSE Len(s))
Drop(s, n) == SubSeq(s, n + 1, Len(s))

NoPacket == [result |-> "none", packet_type |-> 0, data |-> <<>>]
Blocked == [result |-> "blocked", packet_type |-> 0, data |-> <<>>]
NotRead == [result |-> "unread", packet_type |-> 0, data |-> <<>>]
Starved(short) == IF short THEN NoPacket ELSE Blocked

\* a reader that never compares the checksum
read_packet_unchecked(s, short) ==
    IF Len(s) < 6 /\ ~short THEN Blocked
    ELSE IF Take(s, 6) # Magic THEN NoPacket
    ELSE LET meta == Take(Drop(s, 6), 3)
         IN  IF Len(meta) # 3 THEN Starved(short)
             ELSE LET body == Drop(s, 9)
                      payload == Take(body, meta[3])
                      checksum_byte == Take(Drop(body, Len(payload)), 1)
                  IN  IF Len(payload) < meta[3] /\ ~short THEN Blocked
                      ELSE IF Len(checksum_byte) # 1 THEN Starved(short)
                      ELSE [result |-> "packet", packet_type |-> meta[2],
                            data |-> payload]

\* read_packet on the bytes s waiting on stdin.  A read that asks for more
\* bytes than are waiting either returns what there is (short) or blocks.
read_packet(s, short) ==
    IF Len(s) < 6 /\ ~short THEN Blocked
    ELSE IF Take(s, 6) # Magic THEN NoPacket
    ELSE LET meta == Take(Drop(s, 6), 3)
         IN  IF Len(meta) # 3 THEN Starved(short)
             ELSE LET body == Drop(s, 9)
                      payload == Take(body, meta[3])
                      checksum_byte == Take(Drop(body, Len(payload)), 1)
                  IN  IF Len(payload) < meta[3] /\ ~short THEN Blocked
                      ELSE IF Len(checksum_byte) # 1 THEN Starved(short)
                      ELSE IF checksum_byte[1] # calculate_checksum(meta \o payload)
                      THEN NoPacket
                      ELSE [result |-> "packet", packet_type |-> meta[2],
                            data |-> payload]

\* a reader that empties the stream looking for the next header
bytes_read_draining(s) == Len(s)

\* read_packet, lines 234-249: the bytes its reads have taken off the stream
\* s by the time it returns
bytes_read(s) ==
    LET header == Take(s, 6)
        meta == Take(Drop(s, 6), 3)
        payload == IF Len(meta) = 3 THEN Take(Drop(s, 9), meta[3]) ELSE <<>>
        checksum_byte == Take(Drop(s, 9 + Len(payload)), 1)
    IN  IF header # Magic THEN Len(header)
        ELSE IF Len(meta) # 3 THEN 6 + Len(meta)
        ELSE 9 + Len(payload) + Len(checksum_byte)

\* one bit of one byte inverted
FlipBit(byte, b) ==
    IF (byte \div (2 ^ b)) % 2 = 1 THEN byte - 2 ^ b ELSE byte + 2 ^ b
Flipped(frame, i, b) == [frame EXCEPT ![i] = FlipBit(@, b)]

\* ------------------------------------------------------------------ state
VARIABLES
    board,            \* which main.py runs: "minimal" or "esp32s3"
    NVS_AVAILABLE,    \* wifi_manager: whether "import esp" succeeded
    pc,               \* position of the orchestrator's main()
    current_state,    \* improv_serial global
    current_error,    \* improv_serial global
    out,              \* packets written to stdout since the last dispatch began
    pending,          \* <<ssid, password>> of the connect in progress
    polls,            \* loop counter of the connect wait in progress
    expired,          \* the wait in progress is past its deadline
    listenerResult,   \* what start_listener returned: "none", "true", "false"
    lastCommand,      \* command_id of the last RPC dispatched, 0 before any
    wlanConnected,    \* wlan.isconnected() of the station interface
    staAttempt,       \* the <<ssid, password>> given to wlan.connect for the
                      \* connection being waited on or established
    apState,          \* access point interface: "off", "starting", "on"
    ipSource,         \* where main's ip came from: "none", "sta", "ap"
    bootConnect,      \* the stored-credential connect of this boot: "none",
                      \* "waiting", "connected", "failed"
    file,             \* content of /wifi_config.txt, None when missing
    nvs,              \* NVS namespace "wifi" (or the in-memory cache)
    onboarding_mode,  \* board main.py global
    captive_portal,   \* board main.py global: the CaptivePortal and its fields
    handlers,         \* the onboarding HTTP handlers are registered
    httpReq,          \* body of the last POST /api/configure handled
    httpResp,         \* its response
    lastSave,         \* the last save_credentials call and what it returned
    wire,             \* the bytes on the serial line that read_packet was given
    decoded,          \* what read_packet made of them (in the listener: the
                      \* packet with its payload cut to the command byte)
    txType,           \* framing check: the packet type handed to send_packet
    txPayload,        \* framing check: the payload handed to send_packet
    flip,             \* framing check: <<byte, bit>> inverted on the line
    trailing,         \* framing check: the bytes behind the frame on the stream
    consumed,         \* framing check: how many bytes read_packet took off it
    storeCall,        \* store check: the last WiFiManager call and its outcome
    saved,            \* store check: arguments of the last save that returned
                      \* True with no clear returning True after it
    faulted,          \* store check: some save or clear has returned False
    everSaved,        \* store check: save_credentials has been called
    query,            \* responder check: the datagram given to _build_dns_response
    response,         \* responder check: the bytes it returned
    portalCall,       \* portal check: the last CaptivePortal method called, whether
                      \* it raised, and whether it was a stop() right after a stop()
    tick,             \* portal check: what the last process_dns did
    parseInput,       \* parser check: the payload given to parse_strings, and
                      \* the strings it was built from when send_rpc_result built it
    parsed            \* parser check: what parse_strings did with it

improvVars == <<current_state, current_error, out, pending, listenerResult, lastCommand,
                wire, decoded>>
codecVars == <<txType, txPayload, flip, trailing, consumed>>
storeCallVars == <<storeCall, saved, faulted, everSaved>>
dnsVars == <<query, response>>
tickVars == <<portalCall, tick>>
parseVars == <<parseInput, parsed>>
unitVars == <<codecVars, storeCallVars, dnsVars, tickVars, parseVars>>
radioVars == <<wlanConnected, staAttempt, apState, ipSource, bootConnect>>
storeVars == <<file, nvs>>
configVars == <<board, NVS_AVAILABLE>>
portalVars == <<onboarding_mode, captive_portal, handlers, httpReq, httpResp, lastSave>>
vars == <<configVars, pc, improvVars, polls, expired, radioVars, storeVars, portalVars,
          unitVars>>

NoCred == <<None, None>>
NvsEmpty == [ssid |-> None, password |-> None]
NoPortal == [created |-> FALSE, ap |-> FALSE, dns_socket |-> "none", running |-> FALSE,
             unreferenced |-> 0]
NoBody == [kind |-> "none", ssid |-> None, password |-> None]
NoResponse == [status |-> 0, success |-> FALSE]
NoSave == [ssid |-> None, password |-> None, result |-> "none"]
NoFlip == <<0, 0>>
NoCall == [op |-> "none", ssid |-> None, password |-> None, outcome |-> "ok",
           returned |-> "none", cred |-> NoCred]
NoTick == [recv |-> "none", data |-> <<>>, from |-> 0, exc |-> "none", sent |-> <<>>,
           logged |-> FALSE, raised |-> FALSE]
NoPortalCall == [op |-> "none", raised |-> FALSE, again |-> FALSE]
NoInput == [built |-> FALSE, strings |-> <<>>, data |-> <<>>]
NoParse == [raised |-> FALSE, strings |-> <<>>]

\* the variables of the store, responder and portal checks at rest
StoreIdle == storeCall = NoCall /\ saved = NoCred /\ faulted = FALSE /\ everSaved = FALSE
DnsIdle == query = <<>> /\ response = <<>>
PortalIdle == portalCall = NoPortalCall /\ tick = NoTick
ParseIdle == parseInput = NoInput /\ parsed = NoParse

\* the device as it comes out of a first power-up
DeviceInit ==
    /\ board \in {"minimal", "esp32s3"}
    /\ NVS_AVAILABLE \in BOOLEAN
    /\ (board = "minimal" => NVS_AVAILABLE)
    /\ pc = "boot"
    /\ current_state = STATE_AUTHORIZED
    /\ current_error = ERROR_NONE
    /\ out = <<>>
    /\ pending = NoCred
    /\ polls = 0
    /\ expired = FALSE
    /\ listenerResult = "none"
    /\ lastCommand = 0
    /\ bootConnect = "none"
    /\ lastSave = NoSave
    /\ wlanConnected = FALSE
    /\ staAttempt = NoCred
    /\ apState = "off"
    /\ ipSource = "none"
    /\ file = None
    /\ nvs = NvsEmpty
    /\ onboarding_mode = FALSE
    /\ captive_portal = NoPortal
    /\ handlers = FALSE
    /\ httpReq = NoBody
    /\ httpResp = NoResponse
    /\ wire = <<>>
    /\ decoded = NotRead
    /\ flip = NoFlip
    /\ consumed = 0

Init ==
    /\ DeviceInit
    /\ txType = 0
    /\ txPayload = <<>>
    /\ trailing = <<>>
    /\ StoreIdle
    /\ ParseIdle
    /\ DnsIdle
    /\ PortalIdle

\* ------------------------------------------------------ credential file
\* improv_serial.is_wifi_configured: the file can be opened for reading
is_wifi_configured(f) == f # None

\* main.load_wifi_config
load_wifi_config(f) ==
    IF f = None THEN NoCred
    ELSE LET lines == readlines(f)
         IN IF Len(lines) >= 2 THEN <<strip(lines[1]), strip(lines[2])>>
            ELSE NoCred

\* improv_serial.connect_wifi, lines 175-179: open(..., 'w') truncates, then
\* f.write; either may raise, and the exception is swallowed.
WriteOutcomes == {"ok", "open_fails", "write_fails"}
WriteConfig(f, ssid, password, w) ==
    CASE w = "ok" -> FileText(ssid, password)
      [] w = "open_fails" -> f
      [] w = "write_fails" -> <<>>

\* ------------------------------------------------------- Improv engine
\* start_listener, lines 269-280
StartListener ==
    /\ current_state' = STATE_AUTHORIZED
    /\ out' = <<StatePacket(STATE_AUTHORIZED)>>
    /\ expired' = FALSE
    /\ listenerResult' = "none"
    /\ pc' = "listening"
    /\ UNCHANGED <<current_error, pending, lastCommand, wire, decoded>>

\* time.time() - start_time passes the timeout of the wait in progress; for
\* the wait of start_ap_mode, which keeps no start time, 30 s go by
ClockExpire ==
    /\ pc \in {"listening", "reading", "read_blocked", "improv_connect", "improv_wait",
             "board_wait", "ap_wait"}
    /\ ~expired
    /\ expired' = TRUE
    /\ UNCHANGED <<configVars, unitVars, pc, improvVars, polls, radioVars, storeVars, portalVars>>

\* a deadline that also cuts a connect attempt short and leaves it pending
ListenerTimeoutMidConnect ==
    /\ pc \in {"listening", "improv_wait"}
    /\ expired
    /\ listenerResult' = "false"
    /\ pc' = "main_connect"
    /\ UNCHANGED <<configVars, unitVars, current_state, current_error, out, pending,
                   lastCommand, wire, decoded, polls, expired, radioVars, storeVars,
                   portalVars>>

\* start_listener, lines 284-286
ListenerTimeout ==
    /\ pc = "listening"
    /\ expired
    /\ listenerResult' = "false"
    /\ pc' = "main_connect"
    /\ UNCHANGED <<configVars, unitVars, current_state, current_error, out, pending,
                   lastCommand, wire, decoded, polls, expired, radioVars, storeVars,
                   portalVars>>

\* scan_wifi_networks: the networks found, [] when wlan.scan() raises
Networks == {[ssid |-> <<97>>, rssi |-> <<45, 53>>, authmode |-> 0],
             [ssid |-> <<97, 97>>, rssi |-> <<45, 57>>, authmode |-> 3]}
ScanResults == SeqsUpTo(Networks, MaxNetworks)
\* what scan_wifi_networks does: wlan.active(True), line 134, is outside the try
\* and may raise; inside it the result is the list, or [] when wlan.scan raises
ScanOutcomes ==
    {[raised |-> FALSE, networks |-> n] : n \in ScanResults}
        \cup {[raised |-> TRUE, networks |-> <<>>]}
NoScan == [raised |-> FALSE, networks |-> <<>>]
NetworkInfo(n) == <<n.ssid, n.rssi, IF n.authmode # 0 THEN <<89, 69, 83>> ELSE <<78, 79>> >>
ScanPackets(nets) == [i \in 1..Len(nets) |-> ResultPacket(NetworkInfo(nets[i]))]

\* a dispatch that does not clear the previous error
NotCleared == <<>>

\* handle_rpc_command, line 198, has already sent ERROR_STATE(NONE)
Cleared == <<ErrorPacket(ERROR_NONE)>>

\* a dispatch that takes one parsed string for a credential with an empty
\* password
SendWifiSettingsOneString(data) ==
    LET strings == parse_strings(data)
    IN  IF ~UnicodeError(strings) /\ Len(strings) >= 1
        THEN /\ pending' = <<strings[1], IF Len(strings) >= 2 THEN strings[2] ELSE <<>> >>
             /\ current_error' = ERROR_NONE
             /\ current_state' = STATE_PROVISIONING
             /\ out' = Cleared \o <<StatePacket(STATE_PROVISIONING)>>
             /\ pc' = "improv_connect"
        ELSE /\ current_error' = ERROR_INVALID_RPC
             /\ out' = Cleared \o <<ErrorPacket(ERROR_INVALID_RPC)>>
             /\ pc' = "listening"
             /\ UNCHANGED <<pending, current_state>>

\* handle_rpc_command, lines 200-208, up to the point where connect_wifi has
\* sent CURRENT_STATE(PROVISIONING) (line 156).  A UnicodeError out of
\* parse_strings is caught by start_listener, lines 307-309, which sends the
\* same ERROR_STATE(INVALID_RPC) and goes on listening.
SendWifiSettings(data) ==
    LET strings == parse_strings(data)
    IN  IF ~UnicodeError(strings) /\ Len(strings) >= 2
        THEN /\ pending' = <<strings[1], strings[2]>>
             /\ current_error' = ERROR_NONE
             /\ current_state' = STATE_PROVISIONING
             /\ out' = Cleared \o <<StatePacket(STATE_PROVISIONING)>>
             /\ pc' = "improv_connect"
        ELSE /\ current_error' = ERROR_INVALID_RPC
             /\ out' = Cleared \o <<ErrorPacket(ERROR_INVALID_RPC)>>
             /\ pc' = "listening"
             /\ UNCHANGED <<pending, current_state>>

\* a dispatch that answers with the wrong state constant
RequestCurrentStateReset ==
    /\ current_error' = ERROR_NONE
    /\ current_state' = STATE_AUTHORIZED
    /\ out' = Cleared \o <<StatePacket(STATE_AUTHORIZED)>>
    /\ pc' = "listening"
    /\ UNCHANGED pending

\* handle_rpc_command, lines 210-211
RequestCurrentState ==
    /\ current_error' = ERROR_NONE
    /\ current_state' = current_state
    /\ out' = Cleared \o <<StatePacket(current_state)>>
    /\ pc' = "listening"
    /\ UNCHANGED pending

\* handle_rpc_command, lines 213-215
RequestDeviceInfo ==
    /\ current_error' = ERROR_NONE
    /\ out' = Cleared \o <<ResultPacket(get_device_info)>>
    /\ pc' = "listening"
    /\ UNCHANGED <<pending, current_state>>

\* handle_rpc_command, lines 217-223; an exception out of scan_wifi_networks
\* is caught by start_listener, lines 307-309
RequestScanNetworks(scan) ==
    IF scan.raised
    THEN /\ current_error' = ERROR_INVALID_RPC
         /\ out' = Cleared \o <<ErrorPacket(ERROR_INVALID_RPC)>>
         /\ pc' = "listening"
         /\ UNCHANGED <<pending, current_state>>
    ELSE /\ current_error' = ERROR_NONE
         /\ out' = Cleared \o ScanPackets(scan.networks) \o <<ResultPacket(<<>>)>>
         /\ pc' = "listening"
         /\ UNCHANGED <<pending, current_state>>

\* an unknown command that also falls back to AUTHORIZED
UnknownCommandResets ==
    /\ current_error' = ERROR_UNKNOWN_COMMAND
    /\ current_state' = STATE_AUTHORIZED
    /\ out' = Cleared \o <<ErrorPacket(ERROR_UNKNOWN_COMMAND)>>
    /\ pc' = "listening"
    /\ UNCHANGED pending

\* handle_rpc_command, lines 225-226
UnknownCommand ==
    /\ current_error' = ERROR_UNKNOWN_COMMAND
    /\ out' = Cleared \o <<ErrorPacket(ERROR_UNKNOWN_COMMAND)>>
    /\ pc' = "listening"
    /\ UNCHANGED <<pending, current_state>>

\* handle_rpc_command(command_id, data) as called from start_listener
handle_rpc_command(command_id, data, scan) ==
    CASE command_id = RPC_SEND_WIFI_SETTINGS -> SendWifiSettings(data)
      [] command_id = RPC_REQUEST_CURRENT_STATE -> RequestCurrentState
      [] command_id = RPC_REQUEST_DEVICE_INFO -> RequestDeviceInfo
      [] command_id = RPC_REQUEST_SCAN_NETWORKS -> RequestScanNetworks(scan)
      [] OTHER -> UnknownCommand

\* the byte streams the host side puts on stdin
WifiRequest == send_packet(TYPE_RPC_COMMAND, <<RPC_SEND_WIFI_SETTINGS, 1, 97, 0>>)
ScanRequest == send_packet(TYPE_RPC_COMMAND, <<RPC_REQUEST_SCAN_NETWORKS>>)
RpcFrames ==
    {send_packet(TYPE_RPC_COMMAND, <<c>> \o d) :
        c \in CommandIds \ {RPC_SEND_WIFI_SETTINGS}, d \in {<<>>}}
    \cup {send_packet(TYPE_RPC_COMMAND, <<RPC_SEND_WIFI_SETTINGS>> \o d) : d \in Payloads}
BadChecksum(frame) == [frame EXCEPT ![Len(frame)] = (@ + 1) % 256]
BadMagic(frame) == [frame EXCEPT ![1] = 105]
PartialFrames == {Take(WifiRequest, 3), Take(WifiRequest, 8), Take(WifiRequest, 11),
                  Take(WifiRequest, Len(WifiRequest) - 1)}
DroppedFrames ==
    {BadChecksum(WifiRequest), BadMagic(WifiRequest),
     send_packet(TYPE_CURRENT_STATE, <<STATE_PROVISIONED>>),
     send_packet(TYPE_RPC_RESULT, <<1, 97, 0>>),
     send_packet(TYPE_RPC_COMMAND, <<>>)}
StdinInputs == RpcFrames \cup DroppedFrames \cup PartialFrames

\* start_listener, lines 284-291: the deadline has not passed and poll
\* reports bytes waiting on stdin
ListenerPoll ==
    /\ pc = "listening"
    /\ ~expired
    /\ \E frame \in StdinInputs : wire' = frame
    /\ pc' = "reading"
    /\ UNCHANGED <<configVars, unitVars, current_state, current_error, out, pending,
                   listenerResult, lastCommand, decoded, polls, expired, radioVars,
                   storeVars, portalVars>>

\* start_listener, lines 292-305: read_packet consumes the bytes, and an
\* RPC_COMMAND packet with a non-empty payload is dispatched
ListenerRead ==
    /\ pc = "reading"
    /\ \E short \in (IF wire \in PartialFrames THEN BOOLEAN ELSE {FALSE}),
          scan \in (IF wire = ScanRequest THEN ScanOutcomes ELSE {NoScan}) :
         LET packet == read_packet(wire, short)
         IN  IF packet.result = "blocked"
             THEN /\ pc' = "read_blocked"
                  /\ decoded' = Blocked
                  /\ UNCHANGED <<current_state, current_error, out, pending,
                                 lastCommand, wire>>
             ELSE /\ wire' = <<>>
                  /\ decoded' = [packet EXCEPT !.data = Take(@, 1)]
                  /\ IF /\ packet.result = "packet"
                        /\ packet.packet_type = TYPE_RPC_COMMAND
                        /\ Len(packet.data) > 0
                     THEN /\ lastCommand' = packet.data[1]
                          /\ handle_rpc_command(packet.data[1], Tail(packet.data), scan)
                     ELSE /\ pc' = "listening"
                          /\ UNCHANGED <<current_state, current_error, out, pending,
                                         lastCommand>>
    /\ UNCHANGED <<configVars, unitVars, listenerResult, polls, expired,
                   radioVars, storeVars, portalVars>>

\* read_packet, lines 234-249: a read that blocked returns once further bytes
\* arrive; they do not make up a frame
StdinArrives ==
    /\ pc = "read_blocked"
    /\ wire' = <<>>
    /\ decoded' = NoPacket
    /\ pc' = "listening"
    /\ UNCHANGED <<configVars, unitVars, current_state, current_error, out, pending,
                   listenerResult, lastCommand, polls, expired, radioVars,
                   storeVars, portalVars>>

\* a failure tail that reports the error but never reverts the state
ConnectFailedNoRevert ==
    /\ current_error' = ERROR_UNABLE_TO_CONNECT
    /\ current_state' = current_state
    /\ out' = Append(out, ErrorPacket(ERROR_UNABLE_TO_CONNECT))
    /\ pending' = NoCred
    /\ staAttempt' = NoCred
    /\ pc' = "listening"

\* a failure tail that falls back to AUTHORIZED without telling the host
ConnectFailedSilentRevert ==
    /\ current_error' = ERROR_UNABLE_TO_CONNECT
    /\ current_state' = STATE_AUTHORIZED
    /\ out' = Append(out, ErrorPacket(ERROR_UNABLE_TO_CONNECT))
    /\ pending' = NoCred
    /\ staAttempt' = NoCred
    /\ pc' = "listening"

\* the failure tail of connect_wifi, lines 185-187 and 190-193
ConnectFailed ==
    /\ current_error' = ERROR_UNABLE_TO_CONNECT
    /\ current_state' = STATE_AUTHORIZED
    /\ out' = out \o <<ErrorPacket(ERROR_UNABLE_TO_CONNECT), StatePacket(STATE_AUTHORIZED)>>
    /\ pending' = NoCred
    /\ staAttempt' = NoCred
    /\ pc' = "listening"

\* connect_wifi, lines 158-162: wlan.active(True), then wlan.connect is called
ImprovConnect ==
    /\ pc = "improv_connect"
    /\ \E r \in {"ok", "active_raises"} :
         CASE r = "ok" ->
                /\ staAttempt' = pending
                /\ wlanConnected' = FALSE
                /\ polls' = 0
                /\ pc' = "improv_wait"
                /\ UNCHANGED <<current_state, current_error, out, pending>>
           [] r = "active_raises" ->
                \* outside the try: caught by start_listener, lines 307-309
                /\ current_error' = ERROR_INVALID_RPC
                /\ out' = Append(out, ErrorPacket(ERROR_INVALID_RPC))
                /\ pending' = NoCred
                /\ pc' = "listening"
                /\ UNCHANGED <<current_state, staAttempt, wlanConnected, polls>>
    /\ UNCHANGED <<configVars, unitVars, listenerResult, lastCommand, wire, decoded,
                   expired, apState, ipSource, bootConnect, storeVars, portalVars>>

\* a success that is reported while the listener goes on listening
ImprovSucceedListensOn(ip, w) ==
    /\ wlanConnected' = TRUE
    /\ current_state' = STATE_PROVISIONED
    /\ out' = out \o <<StatePacket(STATE_PROVISIONED), ResultPacket(<<RedirectUrl(ip)>>)>>
    /\ file' = WriteConfig(file, pending[1], pending[2], w)
    /\ listenerResult' = listenerResult
    /\ pending' = NoCred
    /\ pc' = "listening"
    /\ UNCHANGED <<current_error, polls, staAttempt>>

\* connect_wifi, lines 166-181: connected; report, store, return True, and
\* start_listener returns True (lines 303-305)
ImprovSucceed(ip, w) ==
    /\ wlanConnected' = TRUE
    /\ current_state' = STATE_PROVISIONED
    /\ out' = out \o <<StatePacket(STATE_PROVISIONED), ResultPacket(<<RedirectUrl(ip)>>)>>
    /\ file' = WriteConfig(file, pending[1], pending[2], w)
    /\ listenerResult' = "true"
    /\ pending' = NoCred
    /\ pc' = "main_connect"
    /\ UNCHANGED <<current_error, polls, staAttempt>>

\* connect_wifi, lines 162-193: wlan.connect raises (except branch), or one
\* iteration of the wait loop
ImprovPoll ==
    /\ pc = "improv_wait"
    /\ \/ \E ip \in IPs, w \in WriteOutcomes : ImprovSucceed(ip, w)
       \/ /\ polls = 0
          /\ ConnectFailed
          /\ UNCHANGED <<listenerResult, wlanConnected, file, polls>>
       \/ /\ polls + 1 < ImprovConnectPolls
          /\ polls' = polls + 1
          /\ UNCHANGED <<current_state, current_error, out, listenerResult,
                         wlanConnected, file, pc, pending, staAttempt>>
       \/ /\ polls + 1 = ImprovConnectPolls
          /\ polls' = polls + 1
          /\ ConnectFailed
          /\ UNCHANGED <<listenerResult, wlanConnected, file>>
    /\ UNCHANGED <<configVars, unitVars, lastCommand, wire, decoded, expired, apState,
                   ipSource, bootConnect, nvs, portalVars>>

\* ------------------------------------------- minimal orchestrator, main.py
\* a boot that brings the access point up before it listens
MinimalBootWithAp ==
    /\ pc = "boot"
    /\ board = "minimal"
    /\ IF ~is_wifi_configured(file)
       THEN /\ StartListener
            /\ apState' = "starting"
       ELSE /\ pc' = "main_connect"
            /\ UNCHANGED <<improvVars, expired, apState>>
    /\ UNCHANGED <<configVars, unitVars, polls, wlanConnected, staAttempt, ipSource,
                   bootConnect, storeVars, portalVars>>

\* main, lines 157-173: the Improv listener runs only when no file exists
MinimalBoot ==
    /\ pc = "boot"
    /\ board = "minimal"
    /\ IF ~is_wifi_configured(file)
       THEN StartListener
       ELSE /\ pc' = "main_connect"
            /\ UNCHANGED <<improvVars, expired>>
    /\ UNCHANGED <<configVars, unitVars, polls, radioVars, storeVars, portalVars>>

\* start_ap_mode, lines 51-56: ap.active(True) and the configuration
start_ap_mode ==
    /\ apState' = (IF apState = "on" THEN "on" ELSE "starting")
    /\ expired' = FALSE
    /\ pc' = "ap_wait"

\* connect_wifi of main.py, lines 82-96
MainConnect ==
    /\ pc = "main_connect"
    /\ LET cfg == load_wifi_config(file)
       IN  IF ~Truthy(cfg[1])
           THEN /\ start_ap_mode
                /\ UNCHANGED <<wlanConnected, staAttempt, ipSource, polls, bootConnect>>
           ELSE IF wlanConnected
           THEN /\ ipSource' = "sta"
                /\ pc' = "start_servers"
                /\ UNCHANGED <<wlanConnected, staAttempt, apState, polls, bootConnect,
                               expired>>
           ELSE /\ staAttempt' = cfg
                /\ polls' = MainConnectTimeout
                /\ bootConnect' = "waiting"
                /\ pc' = "main_wait"
                /\ UNCHANGED <<wlanConnected, apState, ipSource, expired>>
    /\ UNCHANGED <<configVars, unitVars, improvVars, storeVars, portalVars>>

\* connect_wifi of main.py, lines 100-110: one iteration of the wait loop
MainWait ==
    /\ pc = "main_wait"
    /\ \/ /\ wlanConnected' = TRUE
          /\ ipSource' = "sta"
          /\ bootConnect' = "connected"
          /\ pc' = "start_servers"
          /\ UNCHANGED <<polls, apState, staAttempt, expired>>
       \/ /\ polls > 0
          /\ polls' = polls - 1
          /\ UNCHANGED <<wlanConnected, ipSource, apState, pc, staAttempt, bootConnect,
                         expired>>
       \/ /\ polls = 0
          /\ start_ap_mode
          /\ staAttempt' = NoCred
          /\ bootConnect' = "failed"
          /\ UNCHANGED <<wlanConnected, ipSource, polls>>
    /\ UNCHANGED <<configVars, unitVars, improvVars, storeVars, portalVars>>

\* the access point interface reports active
ApComesUp ==
    /\ apState = "starting"
    /\ apState' = "on"
    /\ UNCHANGED <<configVars, unitVars, pc, improvVars, polls, expired, wlanConnected,
                   staAttempt, ipSource, bootConnect, storeVars, portalVars>>

\* start_ap_mode, lines 58-66: while not ap.active(): sleep
ApWait ==
    /\ pc = "ap_wait"
    /\ apState = "on"
    /\ ipSource' = "ap"
    /\ pc' = "start_servers"
    /\ UNCHANGED <<configVars, unitVars, improvVars, polls, expired, wlanConnected,
                   staAttempt, apState, bootConnect, storeVars, portalVars>>

\* ------------------------------------------------- WiFiManager (NVS store)
NvsOutcomes == {"ok", "raises_before", "raises_after"}

\* has_credentials: False when NVS raises
has_credentials(store, r) ==
    IF NVS_AVAILABLE
    THEN r = "ok" /\ store.ssid # None /\ Len(store.ssid) > 0
    ELSE store.ssid # None

\* load_credentials
load_credentials(store, r) ==
    IF NVS_AVAILABLE
    THEN IF r = "ok" /\ Truthy(store.ssid) THEN <<store.ssid, store.password>> ELSE NoCred
    ELSE <<store.ssid, store.password>>

\* a save that writes the ssid under both keys
SaveStoreWrongKey(store, ssid, password, r) ==
    IF NVS_AVAILABLE /\ r = "raises_before" THEN store
    ELSE [ssid |-> ssid, password |-> ssid]

\* a save that reports success when only nvs.commit() failed
SaveResultCommitIgnored(r) == ~NVS_AVAILABLE \/ r # "raises_before"

\* save_credentials: the store afterwards, and the value returned
SaveStore(store, ssid, password, r) ==
    IF NVS_AVAILABLE /\ r = "raises_before" THEN store
    ELSE [ssid |-> ssid, password |-> password]
SaveResult(r) == ~NVS_AVAILABLE \/ r = "ok"

\* a clear that erases the ssid and leaves the password
ClearStoreSsidOnly(store, r) ==
    IF NVS_AVAILABLE /\ r = "raises_before" THEN store
    ELSE [ssid |-> None, password |-> store.password]

\* clear_credentials: the store afterwards, and the value returned
ClearStore(store, r) ==
    IF NVS_AVAILABLE /\ r = "raises_before" THEN store ELSE NvsEmpty
ClearResult(r) == ~NVS_AVAILABLE \/ r = "ok"

\* a has_credentials without its try/except: what NVS raises gets out
HasCallUncaught(store, r) ==
    IF NVS_AVAILABLE /\ r # "ok" THEN "raised"
    ELSE IF has_credentials(store, r) THEN "true" ELSE "false"

\* what the caller of each method sees: the value returned, or "raised" when
\* an exception leaves the method. Every NVS call sits in a try whose except
\* clause returns (lines 37, 52, 69, 84), the cache branches raise nothing.
HasCall(store, r) == IF has_credentials(store, r) THEN "true" ELSE "false"
LoadCall(store, r) == IF load_credentials(store, r) = NoCred THEN "absent" ELSE "credential"
SaveCall(r) == IF SaveResult(r) THEN "true" ELSE "false"
ClearCall(r) == IF ClearResult(r) THEN "true" ELSE "false"

\* --------------------------------------- board orchestrator, ESP32_S3_N8R2
\* main, lines 198-235, with WiFiManager.connect up to its wait loop
BoardBoot ==
    /\ pc = "boot"
    /\ board = "esp32s3"
    /\ \E r1 \in NvsOutcomes, r2 \in NvsOutcomes, rc \in NvsOutcomes :
         IF has_credentials(nvs, r1)
         THEN LET cred == load_credentials(nvs, r2)
              IN  IF ~Truthy(cred[1])
                  THEN \* connect returns None: clear and onboard
                       /\ nvs' = ClearStore(nvs, rc)
                       /\ onboarding_mode' = TRUE
                       /\ bootConnect' = "failed"
                       /\ pc' = "start_portal"
                       /\ UNCHANGED <<staAttempt, expired>>
                  ELSE /\ staAttempt' = cred
                       /\ expired' = FALSE
                       /\ bootConnect' = "waiting"
                       /\ pc' = "board_wait"
                       /\ UNCHANGED <<nvs, onboarding_mode>>
         ELSE /\ onboarding_mode' = TRUE
              /\ pc' = "start_portal"
              /\ UNCHANGED <<nvs, staAttempt, expired, bootConnect>>
    /\ UNCHANGED <<configVars, unitVars, improvVars, polls, wlanConnected, apState, ipSource,
                   file, captive_portal, handlers, httpReq, httpResp, lastSave>>

\* WiFiManager.connect, lines 131-140, and main, lines 205-231
BoardWait ==
    /\ pc = "board_wait"
    /\ \/ /\ wlanConnected' = TRUE
          /\ ipSource' = "sta"
          /\ onboarding_mode' = FALSE
          /\ bootConnect' = "connected"
          /\ pc' = "start_servers"
          /\ UNCHANGED <<nvs, staAttempt>>
       \/ /\ expired
          /\ \E rc \in NvsOutcomes : nvs' = ClearStore(nvs, rc)
          /\ onboarding_mode' = TRUE
          /\ staAttempt' = NoCred
          /\ bootConnect' = "failed"
          /\ pc' = "start_portal"
          /\ UNCHANGED <<wlanConnected, ipSource>>
    /\ UNCHANGED <<configVars, unitVars, improvVars, polls, expired, apState,
                   file, captive_portal, handlers, httpReq, httpResp, lastSave>>

\* CaptivePortal.start and _start_dns_server.  Line 82 assigns the new socket
\* to self.dns_socket; a socket the attribute held before is left open with
\* nothing referring to it (unreferenced counts those).
DnsOutcomes == {"bound", "bind_raises", "socket_raises"}
PortalStart(portal, d) ==
    [created |-> TRUE, ap |-> TRUE, running |-> TRUE,
     dns_socket |-> CASE d = "bound" -> "bound"
                      [] d = "bind_raises" -> "unbound"
                      [] d = "socket_raises" -> portal.dns_socket,
     unreferenced |-> IF d # "socket_raises" /\ portal.dns_socket # "none"
                      THEN portal.unreferenced + 1 ELSE portal.unreferenced]

\* CaptivePortal.stop
PortalStop(portal) ==
    [created |-> portal.created, ap |-> FALSE, running |-> FALSE, dns_socket |-> "none",
     unreferenced |-> portal.unreferenced]

\* main, lines 238-241
BoardStartPortal ==
    /\ pc = "start_portal"
    /\ \E d \in DnsOutcomes : captive_portal' = PortalStart(NoPortal, d)
    /\ apState' = (IF apState = "on" THEN "on" ELSE "starting")
    /\ pc' = "start_servers"
    /\ UNCHANGED <<configVars, unitVars, improvVars, polls, expired, wlanConnected,
                   staAttempt, ipSource, bootConnect, storeVars, onboarding_mode,
                   handlers, httpReq, httpResp, lastSave>>

\* a watchdog that answers the loss of the station link by starting the
\* captive portal again
LinkLostReprovisions ==
    /\ pc \in {"start_servers", "main_loop"}
    /\ ipSource = "sta"
    /\ wlanConnected
    /\ wlanConnected' = FALSE
    /\ onboarding_mode' = TRUE
    /\ captive_portal' = PortalStart(NoPortal, "bound")
    /\ UNCHANGED <<configVars, unitVars, pc, improvVars, polls, expired, staAttempt,
                   apState, ipSource, bootConnect, storeVars, handlers, httpReq,
                   httpResp, lastSave>>

\* the network drops the station after main has its address:
\* wlan.isconnected() turns False.  Neither main loop (main.py 204-208, board
\* main.py 253-263) reads the link state, so nothing else changes.
LinkLost ==
    /\ pc \in {"start_servers", "main_loop"}
    /\ ipSource = "sta"
    /\ wlanConnected
    /\ wlanConnected' = FALSE
    /\ onboarding_mode' = onboarding_mode
    /\ captive_portal' = captive_portal
    /\ UNCHANGED <<configVars, unitVars, pc, improvVars, polls, expired, staAttempt,
                   apState, ipSource, bootConnect, storeVars, handlers, httpReq,
                   httpResp, lastSave>>

\* start_servers and what main does with its result (both orchestrators)
StartServers ==
    /\ pc = "start_servers"
    /\ \/ /\ pc' = "main_loop"
          /\ handlers' = (board = "esp32s3" /\ onboarding_mode)
       \/ /\ pc' = "exit"
          /\ UNCHANGED handlers
    /\ UNCHANGED <<configVars, unitVars, improvVars, polls, expired, radioVars, storeVars,
                   onboarding_mode, captive_portal, httpReq, httpResp, lastSave>>

\* POST /api/configure: request bodies
Ssids == {<<97>>, <<97, 32>>}
Passwords == {<<>>, <<97>>}
Bodies ==
    {[kind |-> "invalid", ssid |-> None, password |-> None]}
    \cup [kind : {"json"}, ssid : Ssids \cup {None, <<>>}, password : Passwords \cup {None}]

\* handle_configure
Response(status, success) == [status |-> status, success |-> success]
ConfigureStore(store, body, r) ==
    IF body.kind = "json" /\ Truthy(body.ssid)
    THEN SaveStore(store, body.ssid, IF body.password = None THEN <<>> ELSE body.password, r)
    ELSE store
ConfigureSave(body, r) ==
    IF body.kind = "json" /\ Truthy(body.ssid)
    THEN [ssid |-> body.ssid,
          password |-> IF body.password = None THEN <<>> ELSE body.password,
          result |-> IF SaveResult(r) THEN "true" ELSE "false"]
    ELSE lastSave
\* a handler that saves whatever ssid the body has before it looks at it
handle_configure_saves_first(body, r) ==
    /\ httpReq' = body
    /\ nvs' = IF body.kind = "json"
              THEN SaveStore(nvs, body.ssid,
                             IF body.password = None THEN <<>> ELSE body.password, r)
              ELSE nvs
    /\ lastSave' = ConfigureSave(body, r)
    /\ httpResp' = CASE body.kind # "json" -> Response(500, FALSE)
                     [] body.kind = "json" /\ ~Truthy(body.ssid) -> Response(400, FALSE)
                     [] OTHER -> Response(200, TRUE)

handle_configure(body, r) ==
    /\ httpReq' = body
    /\ nvs' = ConfigureStore(nvs, body, r)
    /\ lastSave' = ConfigureSave(body, r)
    /\ httpResp' = CASE body.kind # "json" -> Response(500, FALSE)
                     [] body.kind = "json" /\ ~Truthy(body.ssid) -> Response(400, FALSE)
                     [] OTHER -> Response(200, TRUE)

\* main loop, httpserver.process_queue delivering a POST /api/configure
HttpConfigure ==
    /\ pc = "main_loop"
    /\ handlers
    /\ \E body \in Bodies, r \in NvsOutcomes : handle_configure(body, r)
    /\ UNCHANGED <<configVars, unitVars, pc, improvVars, polls, expired, radioVars, file,
                   onboarding_mode, captive_portal, handlers>>

\* main, lines 265-274 (and main.py of the minimal orchestrator, 209-213)
KeyboardInterrupt ==
    /\ pc = "main_loop"
    /\ pc' = "exit"
    /\ IF captive_portal.created
       THEN /\ captive_portal' = PortalStop(captive_portal)
            /\ apState' = "off"
       ELSE UNCHANGED <<captive_portal, apState>>
    /\ UNCHANGED <<configVars, unitVars, improvVars, polls, expired, wlanConnected,
                   staAttempt, ipSource, bootConnect, storeVars, onboarding_mode,
                   handlers, httpReq, httpResp, lastSave>>

\* power cycle: boot.py and main() run again; only the stores survive
Reboot ==
    /\ pc # "boot"
    /\ pc' = "boot"
    /\ current_state' = STATE_AUTHORIZED
    /\ current_error' = ERROR_NONE
    /\ out' = <<>>
    /\ pending' = NoCred
    /\ polls' = 0
    /\ expired' = FALSE
    /\ listenerResult' = "none"
    /\ lastCommand' = 0
    /\ wire' = <<>>
    /\ decoded' = NotRead
    /\ bootConnect' = "none"
    /\ lastSave' = NoSave
    /\ wlanConnected' = FALSE
    /\ staAttempt' = NoCred
    /\ apState' = "off"
    /\ ipSource' = "none"
    /\ nvs' = (IF NVS_AVAILABLE THEN nvs ELSE NvsEmpty)
    /\ onboarding_mode' = FALSE
    /\ captive_portal' = NoPortal
    /\ handlers' = FALSE
    /\ httpReq' = NoBody
    /\ httpResp' = NoResponse
    /\ UNCHANGED <<configVars, unitVars, file>>

Next ==
    \/ MinimalBoot
    \/ ClockExpire
    \/ ListenerTimeout
    \/ ListenerPoll
    \/ ListenerRead
    \/ StdinArrives
    \/ ImprovConnect
    \/ ImprovPoll
    \/ MainConnect
    \/ MainWait
    \/ ApComesUp
    \/ ApWait
    \/ BoardBoot
    \/ BoardWait
    \/ BoardStartPortal
    \/ StartServers
    \/ HttpConfigure
    \/ KeyboardInterrupt
    \/ LinkLost
    \/ Reboot

Spec == Init /\ [][Next]_vars

\* ------------------------------------------- the framing functions alone
\* packet types and payloads handed to send_packet
MaxWireLen == 2
MaxFrameData == 255
WireTypes == {0, TYPE_CURRENT_STATE, TYPE_RPC_COMMAND, TYPE_RPC_RESULT, 255}
WireBytes == {0, 4, 128, 255}
LongPayload == [i \in 1..MaxFrameData |-> 1]
WirePayloads == SeqsUpTo(WireBytes, MaxWireLen) \cup {LongPayload}
\* what the host has sent behind the frame: nothing, or the next frame
Trailing == {<<>>, send_packet(TYPE_RPC_COMMAND, <<RPC_REQUEST_CURRENT_STATE>>)}

CodecInit ==
    /\ DeviceInit
    /\ board = "minimal"
    /\ txType \in WireTypes
    /\ txPayload \in WirePayloads
    /\ trailing \in Trailing
    /\ StoreIdle
    /\ ParseIdle
    /\ DnsIdle
    /\ PortalIdle

\* send_packet(txType, txPayload) puts the frame on the line
CodecSend ==
    /\ pc = "boot"
    /\ wire' = send_packet(txType, txPayload)
    /\ pc' = "on_wire"
    /\ UNCHANGED <<configVars, current_state, current_error, out, pending,
                   listenerResult, lastCommand, decoded, polls, expired, radioVars,
                   storeVars, portalVars, unitVars>>

\* the line inverts one bit of the frame, outside its checksum byte
LineFlip ==
    /\ pc = "on_wire"
    /\ flip = NoFlip
    /\ \E i \in 1..(Len(wire) - 1), b \in 0..7 :
         /\ wire' = Flipped(wire, i, b)
         /\ flip' = <<i, b>>
    /\ UNCHANGED <<configVars, pc, current_state, current_error, out, pending,
                   listenerResult, lastCommand, decoded, polls, expired, radioVars,
                   storeVars, portalVars, txType, txPayload, trailing, consumed,
                   storeCallVars, dnsVars, tickVars, parseVars>>

\* read_packet reads the frame off the line
CodecRead ==
    /\ pc = "on_wire"
    /\ \E short \in BOOLEAN : decoded' = read_packet(wire \o trailing, short)
    /\ consumed' = bytes_read(wire \o trailing)
    /\ pc' = "read"
    /\ UNCHANGED <<configVars, current_state, current_error, out, pending,
                   listenerResult, lastCommand, wire, polls, expired, radioVars,
                   storeVars, portalVars, txType, txPayload, flip, trailing,
                   storeCallVars, dnsVars, tickVars, parseVars>>

CodecNext == CodecSend \/ LineFlip \/ CodecRead

CodecSpec == CodecInit /\ [][CodecNext]_vars

\* --------------------------------------------------- the WiFiManager alone
\* arguments given to save_credentials; the empty ssid is not a credential
\* but nothing in save_credentials refuses it
StoreSsids == Ssids \cup {<<>>}
\* what the NVS calls of one method do; the cache branch makes none
CallOutcomes == IF NVS_AVAILABLE THEN NvsOutcomes ELSE {"ok"}

StoreInit ==
    /\ DeviceInit
    /\ board = "esp32s3"
    /\ txType = 0
    /\ txPayload = <<>>
    /\ trailing = <<>>
    /\ StoreIdle
    /\ ParseIdle
    /\ DnsIdle
    /\ PortalIdle

StoreHas ==
    /\ \E r \in CallOutcomes :
         storeCall' = [op |-> "has", ssid |-> None, password |-> None, outcome |-> r,
                       returned |-> HasCall(nvs, r), cred |-> NoCred]
    /\ UNCHANGED <<configVars, pc, improvVars, polls, expired, radioVars, storeVars,
                   portalVars, codecVars, saved, faulted, everSaved, dnsVars, tickVars, parseVars>>

StoreLoad ==
    /\ \E r \in CallOutcomes :
         storeCall' = [op |-> "load", ssid |-> None, password |-> None, outcome |-> r,
                       returned |-> LoadCall(nvs, r), cred |-> load_credentials(nvs, r)]
    /\ UNCHANGED <<configVars, pc, improvVars, polls, expired, radioVars, storeVars,
                   portalVars, codecVars, saved, faulted, everSaved, dnsVars, tickVars, parseVars>>

StoreSave ==
    /\ \E ssid \in StoreSsids, password \in Passwords, r \in CallOutcomes :
         /\ nvs' = SaveStore(nvs, ssid, password, r)
         /\ storeCall' = [op |-> "save", ssid |-> ssid, password |-> password,
                          outcome |-> r, returned |-> SaveCall(r), cred |-> NoCred]
         /\ saved' = IF SaveCall(r) = "true" THEN <<ssid, password>> ELSE saved
         /\ faulted' = (faulted \/ SaveCall(r) # "true")
    /\ everSaved' = TRUE
    /\ UNCHANGED <<configVars, pc, improvVars, polls, expired, radioVars, file,
                   portalVars, codecVars, dnsVars, tickVars, parseVars>>

StoreClear ==
    /\ \E r \in CallOutcomes :
         /\ nvs' = ClearStore(nvs, r)
         /\ storeCall' = [op |-> "clear", ssid |-> None, password |-> None,
                          outcome |-> r, returned |-> ClearCall(r), cred |-> NoCred]
         /\ saved' = IF ClearCall(r) = "true" THEN NoCred ELSE saved
         /\ faulted' = (faulted \/ ClearCall(r) # "true")
    /\ UNCHANGED <<configVars, pc, improvVars, polls, expired, radioVars, file,
                   portalVars, codecVars, everSaved, dnsVars, tickVars, parseVars>>

StoreNext == StoreHas \/ StoreLoad \/ StoreSave \/ StoreClear

StoreSpec == StoreInit /\ [][StoreNext]_vars

\* ------------------------------------------------- the DNS responder alone
\* CaptivePortal.AP_IP, "192.168.4.1"
AP_IP == <<49, 57, 50, 46, 49, 54, 56, 46, 52, 46, 49>>
\* the header bytes _build_dns_response steps over: query[12:]
HEADER_LEN == 12

\* str.split('.')
RECURSIVE SplitFrom(_, _)
SplitFrom(text, cur) ==
    IF text = <<>> THEN <<cur>>
    ELSE IF Head(text) = 46 THEN <<cur>> \o SplitFrom(Tail(text), <<>>)
         ELSE SplitFrom(Tail(text), Append(cur, Head(text)))
split(text) == SplitFrom(text, <<>>)

\* int() of a string of decimal digits
RECURSIVE int(_)
int(digits) ==
    IF digits = <<>> THEN 0
    ELSE 10 * int(SubSeq(digits, 1, Len(digits) - 1)) + (digits[Len(digits)] - 48)

\* lines 123-124: bytes([int(p) for p in self.AP_IP.split('.')])
IpBytes == [i \in 1..Len(split(AP_IP)) |-> int(split(AP_IP)[i])]

\* query[a:b]
Slice(q, a, b) == Drop(Take(q, b), a)

\* the answer record, lines 116-124
AnswerRecord ==
    <<192, 12>> \o <<0, 1>> \o <<0, 1>> \o <<0, 0, 0, 60>> \o <<0, 4>> \o IpBytes

\* a response that copies the whole header of the query and sets the flags
build_dns_response_counts_copied(q) ==
    Take(q, 2) \o <<129, 128>> \o Slice(q, 4, HEADER_LEN) \o Drop(q, HEADER_LEN)
        \o AnswerRecord

\* a response with the address octets in the wrong order
build_dns_response_reversed(q) ==
    Take(q, 2) \o <<129, 128>> \o Slice(q, 4, 6) \o <<0, 1>> \o <<0, 0, 0, 0>>
        \o Drop(q, HEADER_LEN)
        \o <<192, 12>> \o <<0, 1>> \o <<0, 1>> \o <<0, 0, 0, 60>> \o <<0, 4>>
        \o [i \in 1..Len(IpBytes) |-> IpBytes[Len(IpBytes) + 1 - i]]

\* CaptivePortal._build_dns_response
build_dns_response(q) ==
    Take(q, 2) \o <<129, 128>> \o Slice(q, 4, 6) \o <<0, 1>> \o <<0, 0, 0, 0>>
        \o Drop(q, HEADER_LEN) \o AnswerRecord

\* datagrams that reach port 53: headers, each with a question section
QueryIds == {<<18, 52>>, <<0, 0>>, <<255, 255>>}
QueryFlags == {<<1, 0>>, <<0, 0>>}
QuestionCounts == {<<0, 1>>, <<0, 2>>, <<0, 0>>}
OtherCounts == {<<0, 0, 0, 0, 0, 0>>, <<0, 0, 0, 0, 0, 1>>}
Questions ==
    {<<>>,
     <<0, 0, 1, 0, 1>>,
     <<1, 97, 0, 0, 1, 0, 1>>,
     <<1, 97, 0, 0, 28, 0, 1>>,
     <<7, 101, 120, 97, 109, 112, 108, 101, 3, 99, 111, 109, 0, 0, 1, 0, 1>>}
\* the query for example.com, type A
ExampleQuery ==
    <<18, 52, 1, 0, 0, 1, 0, 0, 0, 0, 0, 0>>
        \o <<7, 101, 120, 97, 109, 112, 108, 101, 3, 99, 111, 109, 0, 0, 1, 0, 1>>
\* datagrams cut short of a header
ShortDatagrams == {Take(ExampleQuery, n) : n \in 0..(HEADER_LEN - 1)}
Queries ==
    {id \o fl \o qd \o oc \o qn :
        id \in QueryIds, fl \in QueryFlags, qd \in QuestionCounts, oc \in OtherCounts,
        qn \in Questions}
    \cup ShortDatagrams

DnsInit ==
    /\ DeviceInit
    /\ board = "esp32s3"
    /\ txType = 0
    /\ txPayload = <<>>
    /\ trailing = <<>>
    /\ StoreIdle
    /\ ParseIdle
    /\ PortalIdle
    /\ query \in Queries
    /\ response = <<>>

\* _build_dns_response(query)
DnsBuild ==
    /\ pc = "boot"
    /\ response' = build_dns_response(query)
    /\ pc' = "answered"
    /\ UNCHANGED <<configVars, improvVars, polls, expired, radioVars, storeVars,
                   portalVars, codecVars, storeCallVars, query, tickVars, parseVars>>

DnsNext == DnsBuild

DnsSpec == DnsInit /\ [][DnsNext]_vars

\* ------------------------------------------------ the CaptivePortal alone
\* start() is not called once this many sockets have been left behind
MaxUnreferenced == 2
\* a stop() that closes the socket and switches the access point off without
\* looking whether it has them
StopCallsUnguarded(portal) == {"close", "active"}

\* stop(), lines 68 and 72: the calls it makes on self.dns_socket and self.ap
StopCalls(portal) ==
    (IF portal.dns_socket # "none" THEN {"close"} ELSE {})
        \cup (IF portal.ap THEN {"active"} ELSE {})
\* a method called on None raises AttributeError
RaisesOnNone(calls, portal) ==
    \/ ("close" \in calls /\ portal.dns_socket = "none")
    \/ ("active" \in calls /\ ~portal.ap)

\* what recvfrom and sendto do: OSError(EAGAIN) is "no data"
RecvOutcomes == {"data", "EAGAIN", "OSError", "Exception"}
SendOutcomes == {"ok", "OSError", "Exception"}
PeerAddrs == {1, 2}
TickQueries == {ExampleQuery, Take(ExampleQuery, 5)}

\* process_dns, lines 99-103: which exceptions leave it, which it prints
ProcessDnsRaises(exc) == exc \notin {"none", "EAGAIN", "OSError", "Exception"}
ProcessDnsLogs(exc) == exc = "Exception"

PortalInit ==
    /\ DeviceInit
    /\ board = "esp32s3"
    /\ txType = 0
    /\ txPayload = <<>>
    /\ trailing = <<>>
    /\ StoreIdle
    /\ ParseIdle
    /\ DnsIdle
    /\ PortalIdle

\* captive_portal.start()
PortalStartCall ==
    /\ captive_portal.unreferenced < MaxUnreferenced
    /\ \E d \in DnsOutcomes : captive_portal' = PortalStart(captive_portal, d)
    /\ apState' = "on"
    /\ portalCall' = [op |-> "start", raised |-> FALSE, again |-> FALSE]
    /\ UNCHANGED <<configVars, pc, improvVars, polls, expired, wlanConnected, staAttempt,
                   ipSource, bootConnect, storeVars, onboarding_mode, handlers, httpReq,
                   httpResp, lastSave, codecVars, storeCallVars, dnsVars, tick, parseVars>>

\* captive_portal.stop()
PortalStopCall ==
    /\ IF RaisesOnNone(StopCalls(captive_portal), captive_portal)
       THEN /\ portalCall' = [op |-> "stop", raised |-> TRUE, again |-> portalCall.op = "stop"]
            /\ UNCHANGED <<captive_portal, apState>>
       ELSE /\ portalCall' = [op |-> "stop", raised |-> FALSE, again |-> portalCall.op = "stop"]
            /\ captive_portal' = PortalStop(captive_portal)
            /\ apState' = (IF captive_portal.ap THEN "off" ELSE apState)
    /\ UNCHANGED <<configVars, pc, improvVars, polls, expired, wlanConnected, staAttempt,
                   ipSource, bootConnect, storeVars, onboarding_mode, handlers, httpReq,
                   httpResp, lastSave, codecVars, storeCallVars, dnsVars, tick, parseVars>>

\* captive_portal.process_dns(), one poll tick
PortalTick ==
    /\ portalCall' = [op |-> "process_dns", raised |-> FALSE, again |-> FALSE]
    /\ IF captive_portal.dns_socket = "none"
       THEN tick' = [NoTick EXCEPT !.recv = "skipped"]
       ELSE \E rcv \in (IF captive_portal.dns_socket = "bound"
                        THEN RecvOutcomes ELSE RecvOutcomes \ {"data"}) :
              IF rcv = "data"
              THEN \E q \in TickQueries, addr \in PeerAddrs, snd \in SendOutcomes :
                     LET exc == IF snd = "ok" THEN "none" ELSE snd
                     IN  tick' = [recv |-> "data", data |-> q, from |-> addr, exc |-> exc,
                                  sent |-> IF snd = "ok"
                                           THEN <<[to |-> addr, data |-> build_dns_response(q)]>>
                                           ELSE <<>>,
                                  logged |-> ProcessDnsLogs(exc),
                                  raised |-> ProcessDnsRaises(exc)]
              ELSE tick' = [recv |-> rcv, data |-> <<>>, from |-> 0, exc |-> rcv,
                            sent |-> <<>>,
                            logged |-> ProcessDnsLogs(rcv),
                            raised |-> ProcessDnsRaises(rcv)]
    /\ UNCHANGED <<configVars, pc, improvVars, polls, expired, radioVars, storeVars,
                   portalVars, codecVars, storeCallVars, dnsVars, parseVars>>

PortalNext == PortalStartCall \/ PortalStopCall \/ PortalTick

PortalSpec == PortalInit /\ [][PortalNext]_vars

\* ------------------------------------------------------- the parser alone
\* what send_rpc_result is given: lists of strings, a, e-acute, ab, and one of
\* 255 characters
LongString == [i \in 1..MaxFrameData |-> 97]
SentStrings == {<<>>, <<97>>, <<233>>, <<97, 98>>, LongString}
StringLists == SeqsUpTo(SentStrings, 2)
\* what else arrives as command data: any bytes; 195 169 is e-acute, 255 and
\* a lone 169 are not UTF-8
MaxParseLen == 4
ParseBytes == {0, 1, 2, 97, 169, 195, 255}
ParsePayloads == SeqsUpTo(ParseBytes, MaxParseLen)

ParseInit ==
    /\ DeviceInit
    /\ board = "minimal"
    /\ txType = 0
    /\ txPayload = <<>>
    /\ trailing = <<>>
    /\ StoreIdle
    /\ ParseIdle
    /\ DnsIdle
    /\ PortalIdle

\* send_rpc_result(strings) builds the payload
ParseBuilt ==
    /\ pc = "boot"
    /\ \E strings \in StringLists :
         parseInput' = [built |-> TRUE, strings |-> strings, data |-> EncodeStrings(strings)]
    /\ pc' = "built"
    /\ UNCHANGED <<configVars, improvVars, polls, expired, radioVars, storeVars,
                   portalVars, codecVars, storeCallVars, dnsVars, tickVars, parsed>>

\* the host sends command data of its own making
ParseArrives ==
    /\ pc = "boot"
    /\ \E data \in ParsePayloads :
         parseInput' = [built |-> FALSE, strings |-> <<>>, data |-> data]
    /\ pc' = "built"
    /\ UNCHANGED <<configVars, improvVars, polls, expired, radioVars, storeVars,
                   portalVars, codecVars, storeCallVars, dnsVars, tickVars, parsed>>

\* parse_strings(data)
ParseCall ==
    /\ pc = "built"
    /\ LET strings == parse_strings(parseInput.data)
       IN  parsed' = IF UnicodeError(strings)
                     THEN [raised |-> TRUE, strings |-> <<>>]
                     ELSE [raised |-> FALSE, strings |-> strings]
    /\ pc' = "parsed"
    /\ UNCHANGED <<configVars, improvVars, polls, expired, radioVars, storeVars,
                   portalVars, codecVars, storeCallVars, dnsVars, tickVars, parseInput>>

ParseNext == ParseBuilt \/ ParseArrives \/ ParseCall

ParseSpec == ParseInit /\ [][ParseNext]_vars

\* ------------------------------------------------------------- properties
ListenerActive ==
    pc \in {"listening", "reading", "read_blocked", "improv_connect", "improv_wait"}
PortalActive == captive_portal.running \/ apState # "off"
ProvisioningEntered ==
    ListenerActive \/ (board = "esp32s3" /\ pc = "main_loop" /\ onboarding_mode)
Stored(cred) == FileText(cred[1], cred[2])
PasswordOf(body) == IF body.password = None THEN <<>> ELSE body.password

\* C1: a SEND_WIFI_SETTINGS whose connect succeeds emits, in this order,
\* CURRENT_STATE(PROVISIONING) (before wlan.connect is called),
\* CURRENT_STATE(PROVISIONED) and one RPC_RESULT with the single string
\* http://<ip>/, ends in PROVISIONED, and the credential is in the store.
C1_SuccessPersists ==
    /\ (pc = "improv_connect" =>
          /\ out[Len(out)] = StatePacket(STATE_PROVISIONING)
          /\ staAttempt = NoCred)
    /\ (listenerResult = "true" =>
          /\ \E ip \in IPs :
               out = Cleared \o <<StatePacket(STATE_PROVISIONING),
                                  StatePacket(STATE_PROVISIONED),
                                  ResultPacket(<<RedirectUrl(ip)>>)>>
          /\ current_state = STATE_PROVISIONED
          /\ file = Stored(staAttempt))

C3_StateMachineSafety ==
    [][/\ (current_state = STATE_AUTHORIZED /\ current_state' = STATE_PROVISIONING) =>
            (pc = "reading" /\ lastCommand' = RPC_SEND_WIFI_SETTINGS)
       /\ (pc = "reading" /\ lastCommand' \in {RPC_REQUEST_CURRENT_STATE,
                                                  RPC_REQUEST_DEVICE_INFO,
                                                  RPC_REQUEST_SCAN_NETWORKS}) =>
            current_state' = current_state]_vars

\* C3 witness: REQUEST_CURRENT_STATE answered while the state is PROVISIONING
C3_QueryInProvisioning ==
    /\ pc = "listening"
    /\ lastCommand = RPC_REQUEST_CURRENT_STATE
    /\ current_state = STATE_PROVISIONING
    /\ out = Cleared \o <<StatePacket(STATE_PROVISIONING)>>

\* C4: after a dispatch that ended in PROVISIONED and wrote the file,
\* load_wifi_config returns exactly the submitted (ssid, passphrase), for
\* every ssid of at least one byte.
C4_LoadReturnsSubmitted ==
    (/\ listenerResult = "true"
     /\ current_state = STATE_PROVISIONED
     /\ Len(staAttempt[1]) >= 1
     /\ file = Stored(staAttempt))
    => load_wifi_config(file) = staAttempt

\* C5: a boot connect that succeeds starts no provisioning transport, and
\* after a boot connect that failed the stored credential is gone (has() is
\* false) once provisioning is entered.
C5_FailedBootConnectClears ==
    /\ (bootConnect = "connected" => ~PortalActive /\ ~ListenerActive)
    /\ (bootConnect = "failed" =>
          IF board = "minimal" THEN ~is_wifi_configured(file)
          ELSE ~has_credentials(nvs, "ok"))

C7_PortalTornDown ==
    [][(httpResp.success /\ pc = "main_loop" /\ pc' = "main_loop") =>
         /\ ~captive_portal'.running
         /\ captive_portal'.dns_socket = "none"
         /\ apState' = "off"
         /\ wlanConnected']_vars

\* C8: an accepted POST /api/configure has called save_credentials with the
\* body's pair and has started a connect attempt with it.
C8_ConfigureSavesAndConnects ==
    httpResp = Response(200, TRUE) =>
        /\ lastSave.ssid = httpReq.ssid
        /\ lastSave.password = PasswordOf(httpReq)
        /\ staAttempt = <<httpReq.ssid, PasswordOf(httpReq)>>

\* C9: no transport reports success unless the store write succeeded: a
\* save_credentials that returned False is not answered success:true, and a
\* listener that returned True has written the file.
C9_NoSuccessWithoutSave ==
    /\ (lastSave.result = "false" => ~httpResp.success)
    /\ (listenerResult = "true" => file = Stored(staAttempt))

ValidRpcFrame(w) ==
    /\ Len(w) >= 11
    /\ SubSeq(w, 1, 6) = Magic
    /\ w[8] = TYPE_RPC_COMMAND
    /\ w[9] >= 1
    /\ Len(w) = 10 + w[9]
    /\ w[Len(w)] = SumSeq(SubSeq(w, 7, Len(w) - 1)) % 256
\* the step in which start_listener dispatches the frame it has just read
Dispatches == pc = "reading" /\ ValidRpcFrame(wire) /\ pc' \in {"listening", "improv_connect"}
\* the code of the last ERROR_STATE packet among the packets
LastErrorCode(packets) ==
    LET at == {i \in 1..Len(packets) : packets[i].type = TYPE_ERROR_STATE}
    IN  packets[CHOOSE i \in at : \A j \in at : j <= i].code
PortalServiced == pc = "main_loop" /\ handlers /\ captive_portal.running
\* the steps the listener takes by itself, without further input
ListenerStep == ListenerTimeout \/ ListenerRead \/ ImprovConnect \/ ImprovPoll

\* C11: whenever the boot sequence finishes starting (or failing to start)
\* the servers while the station is not connected, a provisioning transport
\* is active: the captive portal is running and being serviced by the main
\* loop (the serial listener has returned by then).
C11_TransportAlwaysActive ==
    [][(pc = "start_servers" /\ pc' # "boot" /\ ~wlanConnected') => PortalServiced']_vars

\* C12: once the session deadline has passed the listener is never left
\* without a step of its own to take (it cannot hang on input), and when it
\* stops at the deadline it returns False and emits no packet.
C12_DeadlineStopsListener ==
    [][/\ (expired /\ ListenerActive) => ENABLED ListenerStep
       /\ (pc = "listening" /\ expired /\ pc' = "main_connect") =>
            /\ listenerResult' = "false"
            /\ out' = out
            /\ current_error' = current_error]_vars

\* C13: every wait loop is bounded: the Improv connect wait runs fewer than
\* 20 polls, the stored-credential wait of main.py at most 30, and a wait
\* whose deadline has passed (WiFiManager.connect, start_ap_mode) can leave
\* through its timeout exit.
C13_EveryWaitBounded ==
    /\ (pc = "improv_wait" => polls < ImprovConnectPolls)
    /\ (pc = "main_wait" => polls \in 0..MainConnectTimeout)
    /\ ((pc = "board_wait" /\ expired) => ENABLED (BoardWait /\ bootConnect' = "failed"))
    /\ ((pc = "ap_wait" /\ expired) => ENABLED ApWait)

\* C14: read_packet applied to the bytes send_packet wrote for (type,
\* payload) returns exactly (type, payload), for every type and every payload
\* of up to 255 bytes.
C14_RoundTrip ==
    (pc = "read" /\ flip = NoFlip) =>
        decoded = [result |-> "packet", packet_type |-> txType, data |-> txPayload]

\* C14 witness: a payload of 255 bytes came back as a packet
C14_LongPayloadRead ==
    /\ pc = "read"
    /\ flip = NoFlip
    /\ Len(txPayload) = MaxFrameData
    /\ decoded.result = "packet"
    /\ Len(decoded.data) = MaxFrameData

\* C15: the frame is "IMPROV", the version byte, the type, the payload
\* length, the payload, and one checksum byte equal to the sum modulo 256 of
\* version, type, length and payload bytes, the header left out.
C15_FrameLayout ==
    (pc = "on_wire" /\ flip = NoFlip) =>
        /\ Len(wire) = 10 + Len(txPayload)
        /\ SubSeq(wire, 1, 6) = <<73, 77, 80, 82, 79, 86>>
        /\ wire[7] = 1
        /\ wire[8] = txType
        /\ wire[9] = Len(txPayload)
        /\ SubSeq(wire, 10, 9 + Len(txPayload)) = txPayload
        /\ wire[Len(wire)] = (1 + txType + Len(txPayload) + SumSeq(txPayload)) % 256

\* C15 witness: RPC_COMMAND with payload FF FF, whose sum wraps to 04
C15_WrappedChecksum ==
    /\ pc = "on_wire"
    /\ wire = <<73, 77, 80, 82, 79, 86, 1, 3, 2, 255, 255, 4>>

\* C16 as stated: after any single bit of the frame outside its checksum
\* byte is inverted, read_packet returns no packet.
C16_AnyFlipRejected == (pc = "read" /\ flip # NoFlip) => decoded.result # "packet"

\* C16 amended: after any single bit of the magic, version, type or payload
\* bytes is inverted (the length byte excepted), read_packet returns None.
C16_FlipOutsideLengthRejected ==
    (pc = "read" /\ flip # NoFlip /\ flip[1] # 9) => decoded = NoPacket

\* C16 witness: the top bit of a payload byte was inverted and the frame
\* was rejected
C16_PayloadFlipRead ==
    /\ pc = "read"
    /\ txPayload = <<4, 128>>
    /\ flip = <<11, 7>>
    /\ decoded = NoPacket

\* C17: a read of anything but a well-formed RPC_COMMAND frame with a
\* non-empty payload emits no packet and leaves the protocol state, the
\* last-error code, the pending credential and both stores as they were.
C17_OnlyValidRpcDispatches ==
    [][(pc = "reading" /\ pc' # "boot" /\ ~ValidRpcFrame(wire)) =>
         /\ pc' \in {"reading", "listening", "read_blocked"}
         /\ UNCHANGED <<current_state, current_error, out, pending, lastCommand,
                        listenerResult, file, nvs>>]_vars

\* C17 witness: a frame was read and rejected, and nothing has been emitted
\* or dispatched since the listener started
C17_FrameDropped ==
    /\ pc = "listening"
    /\ decoded = NoPacket
    /\ wire = <<>>
    /\ lastCommand = 0
    /\ out = <<StatePacket(STATE_AUTHORIZED)>>
    /\ file = None

\* C18: every dispatch emits ERROR_STATE(NONE) as its first packet, and the
\* last-error code follows the error packets emitted (so it is NONE once
\* that first packet is out).
C18_DispatchClearsErrorFirst ==
    [][Dispatches =>
         /\ Len(out') >= 1
         /\ out'[1] = [type |-> TYPE_ERROR_STATE, code |-> ERROR_NONE, strings |-> <<>>]
         /\ current_error' = LastErrorCode(out')]_vars

\* C18 witness: a SEND_WIFI_SETTINGS with unparsable arguments was answered
C18_InvalidArgsAnswered ==
    /\ pc = "listening"
    /\ lastCommand = RPC_SEND_WIFI_SETTINGS
    /\ out = <<ErrorPacket(ERROR_NONE), ErrorPacket(ERROR_INVALID_RPC)>>
    /\ current_error = ERROR_INVALID_RPC

\* C19: a dispatch of REQUEST_SCAN_NETWORKS emits, after the clearing
\* ERROR_STATE(NONE), only RPC_RESULT packets: one (ssid, rssi, "YES" or
\* "NO") per network and then one empty RPC_RESULT as the last packet.
C19_ScanEndsWithSentinel ==
    [][(Dispatches /\ wire[10] = RPC_REQUEST_SCAN_NETWORKS) =>
         /\ Len(out') >= 2
         /\ out'[Len(out')] = ResultPacket(<<>>)
         /\ \A i \in 2..(Len(out') - 1) :
              /\ out'[i].type = TYPE_RPC_RESULT
              /\ Len(out'[i].strings) = 3
              /\ out'[i].strings[3] \in {<<89, 69, 83>>, <<78, 79>>}]_vars

\* C20: a dispatch of a command id outside 1..4 emits
\* ERROR_STATE(UNKNOWN_COMMAND), leaves the protocol state as it was, and
\* the listener goes on listening.
C20_UnknownCommandReported ==
    [][(Dispatches /\ wire[10] \notin 1..4) =>
         /\ out' = <<ErrorPacket(ERROR_NONE), ErrorPacket(ERROR_UNKNOWN_COMMAND)>>
         /\ current_error' = ERROR_UNKNOWN_COMMAND
         /\ current_state' = current_state
         /\ pc' = "listening"
         /\ listenerResult' = "none"
         /\ UNCHANGED <<pending, file, nvs>>]_vars

\* C20 witness: command id 255 was answered while the state was PROVISIONING
C20_UnknownInProvisioning ==
    /\ pc = "listening"
    /\ lastCommand = 255
    /\ current_state = STATE_PROVISIONING
    /\ current_error = ERROR_UNKNOWN_COMMAND

\* the command data of the RPC frame w: the payload after the command id
CommandData(w) == SubSeq(w, 11, Len(w) - 1)

\* C21: a dispatch of SEND_WIFI_SETTINGS whose data parses to fewer than two
\* strings emits ERROR_STATE(NONE) then ERROR_STATE(INVALID_RPC), starts no
\* connect, leaves the protocol state, the pending credential, the station
\* and both stores as they were, and the listener goes on listening.
C21_TooFewStringsRejected ==
    [][(/\ Dispatches
        /\ wire[10] = RPC_SEND_WIFI_SETTINGS
        /\ Len(parse_strings(CommandData(wire))) < 2) =>
         /\ out' = <<ErrorPacket(ERROR_NONE), ErrorPacket(ERROR_INVALID_RPC)>>
         /\ current_error' = ERROR_INVALID_RPC
         /\ pc' = "listening"
         /\ listenerResult' = "none"
         /\ UNCHANGED <<current_state, pending, staAttempt, wlanConnected, file, nvs>>]_vars

\* C21 witness: a SEND_WIFI_SETTINGS was refused in AUTHORIZED with no connect
\* attempted and nothing stored
C21_RefusedInAuthorized ==
    /\ pc = "listening"
    /\ lastCommand = RPC_SEND_WIFI_SETTINGS
    /\ current_error = ERROR_INVALID_RPC
    /\ current_state = STATE_AUTHORIZED
    /\ pending = NoCred
    /\ staAttempt = NoCred
    /\ file = None

\* C22: while every save and clear so far has returned True, load() returns
\* the arguments of the last save when no clear came after it and (None,
\* None) otherwise, and has() is true exactly in the first case. A
\* credential has a non-empty ssid; a save of an empty ssid is left out.
C22_LoadReturnsLastSave ==
    (~faulted /\ (saved = NoCred \/ Truthy(saved[1]))) =>
        /\ load_credentials(nvs, "ok") = saved
        /\ (has_credentials(nvs, "ok") <=> saved # NoCred)
        /\ ((storeCall.op = "load" /\ storeCall.outcome = "ok") => storeCall.cred = saved)
        /\ ((storeCall.op = "has" /\ storeCall.outcome = "ok") =>
                (storeCall.returned = "true" <=> saved # NoCred))

\* C22 witness: load() has returned the credential of the last save
C22_LoadedLastSave ==
    /\ ~faulted
    /\ storeCall.op = "load"
    /\ storeCall.cred = << <<97, 32>>, <<97>> >>
    /\ saved = << <<97, 32>>, <<97>> >>

\* C24: with no save called before, has(), load() and clear() raise nothing,
\* has() returns False and load() returns (None, None).
C24_SafeWithoutSave ==
    (~everSaved /\ storeCall.op \in {"has", "load", "clear"}) =>
        /\ storeCall.returned # "raised"
        /\ (storeCall.op = "has" => storeCall.returned = "false")
        /\ (storeCall.op = "load" => storeCall.cred = NoCred /\ storeCall.returned = "absent")
        /\ (storeCall.op = "clear" => storeCall.returned \in {"true", "false"})

\* C24 witness: has() was called on the fresh store while NVS raised
C24_HasOnFreshStore ==
    /\ ~everSaved
    /\ NVS_AVAILABLE
    /\ storeCall.op = "has"
    /\ storeCall.outcome = "raises_before"
    /\ storeCall.returned = "false"

\* C25: when an NVS call of save() or clear() fails, the method returns
\* False: it neither raises nor reports success.
C25_FailedWriteReturnsFalse ==
    (storeCall.op \in {"save", "clear"} /\ NVS_AVAILABLE /\ storeCall.outcome # "ok") =>
        storeCall.returned = "false"

\* C25 witness: save() returned False after nvs.commit() failed
C25_CommitFailed ==
    /\ NVS_AVAILABLE
    /\ storeCall.op = "save"
    /\ storeCall.outcome = "raises_after"
    /\ storeCall.returned = "false"

\* C23: whenever a store reports "configured" (is_wifi_configured() for the
\* file, has_credentials() for NVS), its load returns a credential with a
\* non-empty ssid, the one stored.
C23_ConfiguredHasSsid ==
    /\ is_wifi_configured(file) => Truthy(load_wifi_config(file)[1])
    /\ \A r \in NvsOutcomes :
         has_credentials(nvs, r) =>
             /\ Truthy(nvs.ssid)
             /\ load_credentials(nvs, "ok")[1] = nvs.ssid

\* C30: whenever the portal is running it owns a non-blocking UDP socket
\* bound to 192.168.4.1:53.
C30_RunningOwnsBoundSocket == captive_portal.running => captive_portal.dns_socket = "bound"

\* the last n bytes of s
LastBytes(s, n) == SubSeq(s, Len(s) - n + 1, Len(s))

\* what C26 says of the response to query
ResponseLayout ==
    /\ Len(response) = Len(query) + 16
    /\ SubSeq(response, 1, 2) = SubSeq(query, 1, 2)
    /\ SubSeq(response, 3, 4) = <<129, 128>>
    /\ SubSeq(response, 7, 8) = <<0, 1>>
    /\ SubSeq(response, 9, 12) = <<0, 0, 0, 0>>
    /\ SubSeq(response, 13, Len(query)) = SubSeq(query, 13, Len(query))
    /\ LastBytes(response, 16) =
           <<192, 12, 0, 1, 0, 1, 0, 0, 0, 60, 0, 4, 192, 168, 4, 1>>

\* C26 as stated: the response to every datagram has the transaction ID, the
\* flags 0x8180, answer count 1, authority and additional counts 0, the
\* question section and one answer record (pointer 0xC00C, A, IN, TTL 60,
\* RDLENGTH 4, 192.168.4.1), and is 16 bytes longer than the query.
C26_ResponseLayout == pc = "answered" => ResponseLayout

\* C26 amended: the same for every query that has a complete 12-byte header.
C26_ResponseLayoutWithHeader ==
    (pc = "answered" /\ Len(query) >= HEADER_LEN) =>
        /\ ResponseLayout
        /\ SubSeq(response, 5, 6) = SubSeq(query, 5, 6)

\* C26 witness: the query for example.com was answered
C26_ExampleAnswered ==
    /\ pc = "answered"
    /\ query = ExampleQuery
    /\ Len(response) = 45
    /\ SubSeq(response, 1, 2) = <<18, 52>>

\* C27: whatever the query, the last four bytes of the response are the
\* gateway address 192.168.4.1.
C27_AlwaysGateway ==
    pc = "answered" =>
        /\ Len(response) >= 4
        /\ LastBytes(response, 4) = <<192, 168, 4, 1>>

\* C27 witness: a query for another name and type (a, AAAA) got the
\* gateway address too
C27_OtherNameAnswered ==
    /\ pc = "answered"
    /\ SubSeq(query, 13, Len(query)) = <<1, 97, 0, 0, 28, 0, 1>>
    /\ LastBytes(response, 4) = <<192, 168, 4, 1>>

\* C28: a poll tick makes one receive attempt; a datagram received is
\* answered with exactly one response, sent to the address it came from; the
\* "no data" error is silent, every other error is logged, and no error
\* leaves process_dns.
C28_TickHandlesErrors ==
    portalCall.op = "process_dns" =>
        /\ ~tick.raised
        /\ Len(tick.sent) <= 1
        /\ ((tick.recv = "data" /\ tick.exc = "none") =>
                tick.sent = <<[to |-> tick.from, data |-> build_dns_response(tick.data)]>>)
        /\ (tick.recv # "data" => tick.sent = <<>>)
        /\ (tick.exc = "EAGAIN" => ~tick.logged)
        /\ (tick.exc \notin {"none", "EAGAIN"} => tick.logged)

\* C29: stop() on a portal never started or already stopped raises nothing,
\* and after any stop() the portal has no DNS socket, its access point is
\* off and running is False.
C29_StopIsSafe ==
    portalCall.op = "stop" =>
        /\ ~portalCall.raised
        /\ captive_portal.dns_socket = "none"
        /\ ~captive_portal.ap
        /\ apState = "off"
        /\ ~captive_portal.running

\* C29 witness: stop() was called again on a portal that had been started
\* and stopped
C29_StoppedTwice ==
    /\ portalCall = [op |-> "stop", raised |-> FALSE, again |-> TRUE]
    /\ captive_portal.created
    /\ ~captive_portal.running

\* C31: once main has the station's address (the orchestrator is connected),
\* no later step short of a reboot starts the serial listener, the access
\* point or the captive portal, or registers the onboarding handlers, whether
\* or not the link is still up.
C31_NoReentryAfterConnected ==
    [][(ipSource = "sta" /\ pc' # "boot") =>
         /\ ipSource' = "sta"
         /\ ~ListenerActive'
         /\ ~PortalActive'
         /\ ~onboarding_mode'
         /\ ~handlers']_vars

\* C31 witness: the link was lost in the main loop and no transport started
C31_LinkLostInMainLoop ==
    /\ pc = "main_loop"
    /\ ipSource = "sta"
    /\ ~wlanConnected
    /\ ~ListenerActive
    /\ ~PortalActive

\* a connect of the serial transport is in progress
ImprovMutating == pending # NoCred
\* the stored-credential connect of this boot is in progress
BootMutating == bootConnect = "waiting"
\* the step calls wlan.connect, switches an access point or portal on or
\* off, or writes a credential store
WritesWifi ==
    \/ staAttempt' # staAttempt
    \/ file' # file
    \/ nvs' # nvs
    \/ captive_portal' # captive_portal
    \/ (apState' # apState /\ apState' # "on")

\* C32: the serial connect and the boot connect are never in progress
\* together, and while one of them is, every step that touches the radio or
\* a credential store is a step of that connect; so the HTTP handler and
\* the access-point fallback act only when neither is in progress.
C32_OneMutatorAtATime ==
    [][pc' # "boot" =>
         /\ ~(ImprovMutating' /\ BootMutating')
         /\ (ImprovMutating /\ WritesWifi) => pc \in {"improv_connect", "improv_wait"}
         /\ (BootMutating /\ WritesWifi) => pc \in {"main_wait", "board_wait"}]_vars

\* C32 witness: the HTTP handler wrote the store after the boot connect had
\* failed and cleared it
C32_HandlerAfterBootConnect ==
    /\ board = "esp32s3"
    /\ pc = "main_loop"
    /\ bootConnect = "failed"
    /\ lastSave.result = "true"
    /\ nvs.ssid = lastSave.ssid

\* the stream holds a whole frame as its length byte declares it, and the
\* checksum byte of that frame is not the sum of its version, type, length
\* and payload bytes
ChecksumMismatch(stream) ==
    /\ Len(stream) >= 10
    /\ SubSeq(stream, 1, 6) = Magic
    /\ Len(stream) >= 10 + stream[9]
    /\ stream[10 + stream[9]] # SumSeq(SubSeq(stream, 7, 9 + stream[9])) % 256

\* C33: when the frame on the stream fails its checksum, read_packet
\* returns None having taken exactly 6 + 3 + length + 1 bytes off the
\* stream, length being the length byte read; what the host sent behind
\* the frame is still unread.
C33_MismatchConsumesFrame ==
    (pc = "read" /\ ChecksumMismatch(wire \o trailing)) =>
        /\ decoded = NoPacket
        /\ consumed = 10 + wire[9]
        /\ (flip[1] # 9 => Drop(wire \o trailing, consumed) = trailing)

\* C33 witness: a frame with a corrupted payload byte was dropped and the
\* frame behind it is still on the stream
C33_NextFrameUnread ==
    /\ pc = "read"
    /\ txPayload = <<4, 128>>
    /\ flip = <<11, 7>>
    /\ decoded = NoPacket
    /\ consumed = 12
    /\ Len(trailing) = 11

\* the strings are the records at the front of data, and what follows them
\* is nothing or a record that declares more bytes than are left
LongestRecordPrefix(data, strings) ==
    LET records == EncodeStrings(strings)
        rest == SubSeq(data, Len(records) + 1, Len(data))
    IN  /\ Len(records) <= Len(data)
        /\ SubSeq(data, 1, Len(records)) = records
        /\ (rest = <<>> \/ rest[1] > Len(rest) - 1)

\* C34: for every payload parse_strings raises nothing and returns the
\* longest prefix of (len, bytes) records, ending the list at a record that
\* declares more than is left; for a payload built by send_rpc_result from
\* strings of at most 255 bytes it returns those strings in order.
C34_ParsesLongestPrefix ==
    pc = "parsed" =>
        /\ ~parsed.raised
        /\ LongestRecordPrefix(parseInput.data, parsed.strings)
        /\ (parseInput.built => parsed.strings = parseInput.strings)

\* C35: whenever the listener is waiting for the next packet the protocol
\* state is AUTHORIZED: PROVISIONING does not outlast the dispatch that set
\* it, whichever way that dispatch ends.
C35_WaitingIsAuthorized ==
    pc \in {"listening", "reading", "read_blocked"} => current_state = STATE_AUTHORIZED

\* the places of the CURRENT_STATE(PROVISIONED) packets among the packets
ProvisionedAt(packets) ==
    {i \in 1..Len(packets) : packets[i] = StatePacket(STATE_PROVISIONED)}
\* CURRENT_STATE(PROVISIONED) is among the packets, and no CURRENT_STATE or
\* ERROR_STATE packet comes after it
EndsProvisioned(packets) ==
    \E i \in ProvisionedAt(packets) :
        \A j \in (i + 1)..Len(packets) :
            packets[j].type \notin {TYPE_CURRENT_STATE, TYPE_ERROR_STATE}

\* C36: the step that emits CURRENT_STATE(PROVISIONED) is the step in which
\* start_listener returns True, and the other way round; after it no packet
\* is emitted until the device boots again, so no CURRENT_STATE or
\* ERROR_STATE follows it.
C36_ProvisionedIsTerminal ==
    [][pc' # "boot" =>
         /\ (ProvisionedAt(out') # {} /\ ProvisionedAt(out) = {}) =>
                (listenerResult' = "true" /\ ~ListenerActive')
         /\ (listenerResult' = "true" /\ listenerResult # "true") =>
                (ProvisionedAt(out) = {} /\ EndsProvisioned(out'))
         /\ listenerResult = "true" =>
                (listenerResult' = "true" /\ out' = out /\ EndsProvisioned(out))]_vars

\* C36 witness: the main loop runs after a session that ended with
\* CURRENT_STATE(PROVISIONED) and the redirect URL
C36_ProvisionedThenMainLoop ==
    /\ pc = "main_loop"
    /\ listenerResult = "true"
    /\ Len(out) = 4
    /\ out[3] = StatePacket(STATE_PROVISIONED)
    /\ out[4].type = TYPE_RPC_RESULT

\* the code of the last CURRENT_STATE packet among the packets
LastStateCode(packets) ==
    LET at == {i \in 1..Len(packets) : packets[i].type = TYPE_CURRENT_STATE}
    IN  packets[CHOOSE i \in at : \A j \in at : j <= i].code
\* the packets the step has written to stdout
Emitted ==
    IF Len(out') >= Len(out) /\ SubSeq(out', 1, Len(out)) = out
    THEN SubSeq(out', Len(out) + 1, Len(out'))
    ELSE out'
HasType(packets, t) == \E i \in 1..Len(packets) : packets[i].type = t

\* C37: current_state and current_error change only in a step that emits a
\* CURRENT_STATE, respectively ERROR_STATE, packet, and after every step
\* that emits one they equal the code of the last such packet emitted.
C37_HostViewMatches ==
    [][pc' # "boot" =>
         /\ current_state' # current_state => HasType(Emitted, TYPE_CURRENT_STATE)
         /\ current_error' # current_error => HasType(Emitted, TYPE_ERROR_STATE)
         /\ HasType(Emitted, TYPE_CURRENT_STATE) => current_state' = LastStateCode(Emitted)
         /\ HasType(Emitted, TYPE_ERROR_STATE) => current_error' = LastErrorCode(Emitted)]_vars

\* C37 witness: a connect has failed; the last CURRENT_STATE sent carries
\* AUTHORIZED and the last ERROR_STATE sent carries UNABLE_TO_CONNECT
C37_AfterFailedConnect ==
    /\ pc = "listening"
    /\ lastCommand = RPC_SEND_WIFI_SETTINGS
    /\ Len(out) = 4
    /\ out[3] = ErrorPacket(ERROR_UNABLE_TO_CONNECT)
    /\ out[4] = StatePacket(STATE_AUTHORIZED)
    /\ current_state = STATE_AUTHORIZED
    /\ current_error = ERROR_UNABLE_TO_CONNECT

\* C38: once a stop() has returned, every DNS socket the portal created is
\* closed: the portal holds none and has left none behind.
C38_StopClosesEverySocket ==
    portalCall.op = "stop" =>
        /\ captive_portal.dns_socket = "none"
        /\ captive_portal.unreferenced = 0

\* C39: a POST /api/configure whose body has no ssid or an empty one is
\* answered 400 with success false, one whose body is not JSON is answered
\* 500 with success false, and a request answered 400 or 500 makes no save
\* and leaves NVS and the credential file as they were.
C39_RejectedLeavesStore ==
    [][(pc = "main_loop" /\ pc' = "main_loop") =>
         /\ (httpReq'.kind = "json" /\ httpReq'.ssid \in {None, <<>>}) =>
                httpResp' = [status |-> 400, success |-> FALSE]
         /\ httpReq'.kind = "invalid" => httpResp' = [status |-> 500, success |-> FALSE]
         /\ httpResp'.status \in {400, 500} =>
                (nvs' = nvs /\ lastSave' = lastSave /\ file' = file)]_vars

\* C39 witness: a request with an empty ssid was refused after a credential
\* had been saved, and the credential is still the one stored
C39_RefusedAfterSave ==
    /\ pc = "main_loop"
    /\ httpReq.kind = "json"
    /\ httpReq.ssid = <<>>
    /\ httpResp = [status |-> 400, success |-> FALSE]
    /\ lastSave.result = "true"
    /\ nvs = [ssid |-> <<97, 32>>, password |-> <<97>>]

====
